---- MODULE Spec2Model ----
(***************************************************************************)
(* AnimeImageHandler (src/image_handler.py): identifier extraction,        *)
(* filename derivation, the Jikan resolver, the download loop and the      *)
(* fetch-and-cache engine with its display wrapper.                        *)
(*                                                                         *)
(* Strings are sequences of one-character strings.  The network and the    *)
(* file system are the environment: every response, and the success or     *)
(* failure of every open / write / remove, is chosen nondeterministically. *)
(***************************************************************************)
EXTENDS Integers, Sequences, FiniteSets, TLC

VARIABLES
    fs,          \* the cache directory: derived path -> state of the file there
    pc,          \* position of the call in progress
    op,          \* entry point of the call: "get" | "display" | "none"
    mal_url,     \* argument mal_url: [isStr, chars]
    anime_title, \* argument anime_title
    mal_id,      \* local mal_id of get_anime_image_path
    filename,    \* local filename of get_anime_image_path
    jikanResp,   \* the last response of the metadata API in this call
    image_url,   \* value returned by _get_image_from_jikan
    attempt,     \* loop variable of _download_image
    dlOk,        \* value returned by _download_image
    ret,         \* value returned by get_anime_image_path
    dispRet,     \* value returned by display_image
    raised,      \* an exception left the entry point
    shown,       \* what display_image put on the page
    failStep,    \* the step at which get_anime_image_path returned None
    obs,         \* the I/O this call has performed (each download attempt
                 \* sends one GET, so attempt counts the download GETs);
                 \* timeline lists the resolver's sleeps and GETs in order
    prev,        \* the call completed just before this one, when
                 \* get_anime_image_path returned a path in it
    gen,         \* how the input of a pure function was built
    out          \* the output of a pure function

engineVars == <<fs, pc, op, mal_url, anime_title, mal_id, filename, jikanResp,
                image_url, attempt, dlOk, ret, dispRet, raised, shown,
                failStep, obs, prev>>
pureVars == <<gen, out>>
vars == <<engineVars, pureVars>>

----------------------------------------------------------------------------
(* Characters and strings *)

DigitChars == <<"0", "1", "2", "3", "4", "5", "6", "7", "8", "9">>

\* str.isdigit / the regex class \d, on the characters the model uses
IsDigit(c) == \E d \in 1..10 : DigitChars[d] = c

DigitVal(c) == (CHOOSE d \in 1..10 : DigitChars[d] = c) - 1

Letters == {"a", "b", "c", "e", "g", "h", "i", "k", "m", "n", "o", "s", "t", "x",
            "A", "T", "Z"}

\* str.isalnum
IsAlnum(c) == c \in Letters \/ IsDigit(c)

\* the characters str.rstrip() removes
IsSpace(c) == c \in {" ", "\t", "\n"}

\* the pattern's literal part, /anime/
AnimePrefix == <<"/", "a", "n", "i", "m", "e", "/">>

\* None of _extract_mal_id
NoId == -1

\* None of get_anime_image_path
NoPath == <<>>

\* None of _get_image_from_jikan
NoUrl == "None"

RECURSIVE DigitsToInt(_)
\* int(match.group(1))
DigitsToInt(s) ==
    IF s = <<>> THEN 0
    ELSE 10 * DigitsToInt(SubSeq(s, 1, Len(s) - 1)) + DigitVal(s[Len(s)])

RECURSIVE IntToStr(_)
\* the f-string conversion {mal_id}
IntToStr(n) ==
    IF n < 10 THEN <<DigitChars[n + 1]>>
    ELSE IntToStr(n \div 10) \o <<DigitChars[(n % 10) + 1]>>

----------------------------------------------------------------------------
(* _extract_mal_id *)

\* re.search matches /anime/(\d+) at position i of s
MatchesAt(s, i) ==
    /\ i + 7 <= Len(s)
    /\ SubSeq(s, i, i + 6) = AnimePrefix
    /\ IsDigit(s[i + 7])

RECURSIVE DigitRunEnd(_, _)
\* \d+ is greedy: the last position of the digit run starting at i
DigitRunEnd(s, i) ==
    IF i + 1 <= Len(s) /\ IsDigit(s[i + 1]) THEN DigitRunEnd(s, i + 1) ELSE i

\* a plausible slip: the last occurrence instead of the first
ExtractMalIdLast(u) ==
    IF ~u.isStr THEN NoId
    ELSE LET s == u.chars
             starts == {i \in 1..Len(s) : MatchesAt(s, i)}
         IN  IF starts = {} THEN NoId
             ELSE LET i == CHOOSE j \in starts : \A k \in starts : k <= j
                  IN  DigitsToInt(SubSeq(s, i + 7, DigitRunEnd(s, i + 7)))

\* _extract_mal_id: a non-string argument makes re.search raise TypeError,
\* which the except clause turns into None
ExtractMalId(u) ==
    IF ~u.isStr THEN NoId
    ELSE LET s == u.chars
             starts == {i \in 1..Len(s) : MatchesAt(s, i)}
         IN  IF starts = {} THEN NoId
             ELSE LET i == CHOOSE j \in starts : \A k \in starts : j <= k
                  IN  DigitsToInt(SubSeq(s, i + 7, DigitRunEnd(s, i + 7)))

----------------------------------------------------------------------------
(* _sanitize_filename *)

images_dir == <<"a", "n", "i", "m", "e", "_", "i", "m", "a", "g", "e", "s">>

JpgSuffix == <<".", "j", "p", "g">>

\* the slice [:40]
TruncLen == 40

\* c.isalnum() or c in (' ', '-', '_')
KeepChar(c) == IsAlnum(c) \/ c \in {" ", "-", "_"}

FilterTitle(t) == SelectSeq(t, KeepChar)

RECURSIVE RStrip(_)
\* str.rstrip()
RStrip(s) ==
    IF s # <<>> /\ IsSpace(s[Len(s)]) THEN RStrip(SubSeq(s, 1, Len(s) - 1))
    ELSE s

\* str.replace(' ', '_')
ReplaceSpaces(s) == [i \in 1..Len(s) |-> IF s[i] = " " THEN "_" ELSE s[i]]

Truncate(s) == SubSeq(s, 1, IF Len(s) < TruncLen THEN Len(s) ELSE TruncLen)

\* a plausible slip: trailing whitespace removed before the filter
SanitizeFilenameStripFirst(title, id) ==
    images_dir \o <<"/">>
        \o Truncate(ReplaceSpaces(FilterTitle(RStrip(title))))
        \o <<"_">> \o IntToStr(id) \o JpgSuffix

\* a plausible slip: the title used without the character filter
SanitizeFilenameNoFilter(title, id) ==
    images_dir \o <<"/">>
        \o Truncate(ReplaceSpaces(RStrip(title)))
        \o <<"_">> \o IntToStr(id) \o JpgSuffix

\* a plausible slip: the title cut to 40 characters before it is trimmed
SanitizeFilenameTruncFirst(title, id) ==
    images_dir \o <<"/">>
        \o ReplaceSpaces(RStrip(Truncate(FilterTitle(title))))
        \o <<"_">> \o IntToStr(id) \o JpgSuffix

\* a plausible slip: no separator between the title and the identifier
SanitizeFilenameNoSeparator(title, id) ==
    images_dir \o <<"/">>
        \o Truncate(ReplaceSpaces(RStrip(FilterTitle(title))))
        \o IntToStr(id) \o JpgSuffix

\* _sanitize_filename
SanitizeFilename(title, id) ==
    images_dir \o <<"/">>
        \o Truncate(ReplaceSpaces(RStrip(FilterTitle(title))))
        \o <<"_">> \o IntToStr(id) \o JpgSuffix

----------------------------------------------------------------------------
(* _get_image_from_jikan: the response and what is returned for it *)

\* a key that the JSON object does not hold / a key holding JSON null
Absent == "absent"
Null == "null"

UrlWebpLarge == "u_webp_large"
UrlJpgLarge == "u_jpg_large"
UrlJpg == "u_jpg"

NoBody == [kind |-> "none", webp_large |-> Absent, jpg_large |-> Absent,
           jpg |-> Absent]

\* the bodies of a 200 answer: not JSON (response.json() raises), JSON
\* without data.images, JSON where data, images or an entry of images is no
\* mapping (the `in` test or the subscript raises TypeError), or data.images
\* with each of the three fields absent, null or a URL
Bodies ==
    {[NoBody EXCEPT !.kind = k] : k \in {"badjson", "nodata", "badshape"}}
    \cup [kind : {"images"},
          webp_large : {Absent, Null, UrlWebpLarge},
          jpg_large : {Absent, Null, UrlJpgLarge},
          jpg : {Absent, Null, UrlJpg}]

\* a body holding all three URLs
AllImagesBody == [kind |-> "images", webp_large |-> UrlWebpLarge,
                  jpg_large |-> UrlJpgLarge, jpg |-> UrlJpg]

\* what requests.get gives: an exception (exc), or a status with a body
JikanResponses ==
    {[exc |-> TRUE, status |-> 0, body |-> NoBody]}
    \cup {[exc |-> FALSE, status |-> 429, body |-> NoBody]}
    \cup {[exc |-> FALSE, status |-> s, body |-> b] :
             s \in {404, 500}, b \in {NoBody, AllImagesBody}}
    \cup {[exc |-> FALSE, status |-> 200, body |-> b] : b \in Bodies}

NoResp == [exc |-> FALSE, status |-> 0, body |-> NoBody]

\* the value Python reads from a present field: JSON null is None
FieldValue(v) == IF v = Null THEN NoUrl ELSE v

\* a plausible slip: jpg tried before webp
PickImageUrlJpgFirst(b) ==
    IF b.jpg_large # Absent THEN FieldValue(b.jpg_large)
    ELSE IF b.webp_large # Absent THEN FieldValue(b.webp_large)
    ELSE IF b.jpg # Absent THEN FieldValue(b.jpg)
    ELSE NoUrl

\* lines 87-92: the if / elif chain over data.images
PickImageUrl(b) ==
    IF b.webp_large # Absent THEN FieldValue(b.webp_large)
    ELSE IF b.jpg_large # Absent THEN FieldValue(b.jpg_large)
    ELSE IF b.jpg # Absent THEN FieldValue(b.jpg)
    ELSE NoUrl

\* time.sleep(0.5) of line 74 and time.sleep(2) of line 96, in milliseconds
PreRequestDelayMs == 500
RateLimitDelayMs == 2000

SleepEvent(ms) == [ev |-> "sleep", ms |-> ms]
GetEvent == [ev |-> "get", ms |-> 0]

\* a plausible slip: no longer wait before the retry
InvocationEventsNoLongWait(r) == <<SleepEvent(PreRequestDelayMs), GetEvent>>

\* what one invocation of _get_image_from_jikan does, in order, before it
\* returns or calls itself: the delay, the GET and, on 429, the longer wait
InvocationEvents(r) ==
    <<SleepEvent(PreRequestDelayMs), GetEvent>>
        \o (IF ~r.exc /\ r.status = 429
            THEN <<SleepEvent(RateLimitDelayMs)>>
            ELSE <<>>)

\* a plausible slip: the status test of line 79 left out
ResolveResponseAnyStatus(r) ==
    IF ~r.exc /\ r.body.kind = "images"
    THEN IF r.body.webp_large # Absent THEN r.body.webp_large
         ELSE IF r.body.jpg_large # Absent THEN r.body.jpg_large
         ELSE r.body.jpg
    ELSE NoUrl

\* lines 77-102 for an answer other than 429: the value returned
ResolveResponse(r) ==
    IF ~r.exc /\ r.status = 200 /\ r.body.kind = "images"
    THEN PickImageUrl(r.body)
    ELSE NoUrl

\* `if not mal_id`
FalsyId(id) == id = NoId \/ id = 0

\* a plausible slip: the test of line 124 left out
TruthyUrlAlways(u) == TRUE

\* `if image_url`
TruthyUrl(u) == u # NoUrl /\ u # ""

----------------------------------------------------------------------------
(* The file system *)

FileStates == {"none", "empty", "partial", "full"}

\* os.path.exists
Exists(st) == st # "none"

\* os.path.getsize(...) > 0
SizePositive(st) == st \in {"partial", "full"}

\* a plausible slip: the size test inverted
CacheValidInverted(st) == Exists(st) /\ ~SizePositive(st)

\* line 115: os.path.exists(filename) and os.path.getsize(filename) > 0
CacheValid(st) == Exists(st) /\ SizePositive(st)

----------------------------------------------------------------------------
(* _download_image *)

max_retries == 3

\* a plausible slip: one iteration too many
MoreAttemptsOffByOne(k) == k <= max_retries

\* for attempt in range(max_retries)
MoreAttempts(k) == k < max_retries

\* what one iteration of the loop can meet
DownloadOutcomes ==
    {"get_exc",        \* requests.get raises
     "status",         \* status_code != 200
     "ctype",          \* 200, content-type without "image"
     "open_exc",       \* open(filename, 'wb') raises
     "empty",          \* 200 image, the body has no bytes
     "stream_empty",   \* exception while streaming, nothing written yet
     "stream_partial", \* exception while streaming, some chunks written
     "ok"}             \* 200 image, a non-empty body written

HttpFailure(o) == o \in {"status", "ctype"}

\* a plausible slip: the except clause without its clean-up
ExceptHandlerKeepsFile(st, rm65, w) ==
    [file |-> st, exc |-> FALSE, success |-> FALSE, wrote |-> w,
     deleted |-> FALSE]

\* lines 62-66: the except clause, the file being in state st; rm65 tells
\* whether os.remove succeeds there
ExceptHandler(st, rm65, w) ==
    IF Exists(st)
    THEN IF rm65
         THEN [file |-> "none", exc |-> FALSE, success |-> FALSE,
               wrote |-> w, deleted |-> TRUE]
         ELSE [file |-> st, exc |-> TRUE, success |-> FALSE,
               wrote |-> w, deleted |-> FALSE]
    ELSE [file |-> st, exc |-> FALSE, success |-> FALSE,
          wrote |-> w, deleted |-> FALSE]

\* whether the iteration reaches the os.remove of line 60 (rm60) and of line
\* 65 (rm65); a choice for a remove that is not reached is fixed to TRUE
RemoveChoiceMatters(cur, o, rm60, rm65) ==
    /\ o # "empty" => rm60
    /\ ~(\/ o \in {"get_exc", "open_exc"} /\ Exists(cur)
         \/ o = "empty" /\ ~rm60
         \/ o \in {"stream_empty", "stream_partial"}) => rm65

\* a plausible slip: the content-type test of line 50 left out
AttemptResultNoTypeTest(cur, o, rm60, rm65) ==
    CASE o \in {"get_exc", "open_exc"} ->
            IF cur # "none" /\ ~rm65
            THEN [file |-> cur, exc |-> TRUE, success |-> FALSE,
                  wrote |-> FALSE, deleted |-> FALSE]
            ELSE [file |-> "none", exc |-> FALSE, success |-> FALSE,
                  wrote |-> FALSE, deleted |-> cur # "none"]
      [] o = "status" ->
            [file |-> cur, exc |-> FALSE, success |-> FALSE,
             wrote |-> FALSE, deleted |-> FALSE]
      [] o \in {"empty", "stream_empty", "stream_partial"} ->
            IF (o = "empty" /\ rm60) \/ rm65
            THEN [file |-> "none", exc |-> FALSE, success |-> FALSE,
                  wrote |-> TRUE, deleted |-> TRUE]
            ELSE [file |-> IF o = "stream_partial" THEN "partial" ELSE "empty",
                  exc |-> TRUE, success |-> FALSE, wrote |-> TRUE,
                  deleted |-> FALSE]
      [] o \in {"ctype", "ok"} ->
            [file |-> "full", exc |-> FALSE, success |-> TRUE,
             wrote |-> TRUE, deleted |-> FALSE]

\* lines 41-66: one iteration, the file being in state cur before it
AttemptResult(cur, o, rm60, rm65) ==
    CASE o = "get_exc" -> ExceptHandler(cur, rm65, FALSE)
      [] o \in {"status", "ctype"} ->
            [file |-> cur, exc |-> FALSE, success |-> FALSE,
             wrote |-> FALSE, deleted |-> FALSE]
      [] o = "open_exc" -> ExceptHandler(cur, rm65, FALSE)
      [] o = "empty" ->
            IF rm60
            THEN [file |-> "none", exc |-> FALSE, success |-> FALSE,
                  wrote |-> TRUE, deleted |-> TRUE]
            ELSE ExceptHandler("empty", rm65, TRUE)
      [] o = "stream_empty" -> ExceptHandler("empty", rm65, TRUE)
      [] o = "stream_partial" -> ExceptHandler("partial", rm65, TRUE)
      [] o = "ok" ->
            [file |-> "full", exc |-> FALSE, success |-> TRUE,
             wrote |-> TRUE, deleted |-> FALSE]

----------------------------------------------------------------------------
(* The calls the dashboard can make *)

UrlId5 == [isStr |-> TRUE, chars |-> <<"m">> \o AnimePrefix \o <<"5", "/", "x">>]
UrlId0 == [isStr |-> TRUE, chars |-> <<"m">> \o AnimePrefix \o <<"0", "/", "x">>]
UrlNoId == [isStr |-> TRUE, chars |-> <<"m", "/", "x">>]
UrlNonStr == [isStr |-> FALSE, chars |-> <<>>]

EngineUrls == {UrlId5, UrlId0, UrlNoId}

TitleAB == <<"a", " ", "b", "!">>
TitleC == <<"c">>

\* a title that differs from TitleAB and gives the same filename
TitleABPlain == <<"a", " ", "b">>

EngineTitles == {TitleAB, TitleC, TitleABPlain}

\* the paths the calls above can derive
Paths ==
    {SanitizeFilename(t, ExtractMalId(u)) :
        t \in EngineTitles, u \in {v \in EngineUrls : ~FalsyId(ExtractMalId(v))}}

\* most GETs one call may send to the metadata API before the model stops
\* answering 429
MaxJikanGets == 3

ZeroObs == [jikanGets |-> 0, dlHttpFails |-> 0, wrote |-> FALSE,
            deleted |-> FALSE, timeline |-> <<>>]

NoPrev == [op |-> "none", url |-> UrlNonStr, title |-> <<>>, ret |-> NoPath]

NoGen == [kind |-> "none"]

\* the engine between calls, on a cache directory left by earlier runs
InitEngine ==
    /\ fs \in [Paths -> {"none", "empty", "full"}]
    /\ pc = "idle"
    /\ op = "none"
    /\ mal_url = UrlNonStr
    /\ anime_title = <<>>
    /\ mal_id = NoId
    /\ filename = NoPath
    /\ jikanResp = NoResp
    /\ image_url = NoUrl
    /\ attempt = 0
    /\ dlOk = FALSE
    /\ ret = NoPath
    /\ dispRet = "none"
    /\ raised = FALSE
    /\ shown = {}
    /\ failStep = ""
    /\ obs = ZeroObs
    /\ prev = NoPrev

Init ==
    /\ InitEngine
    /\ gen = NoGen
    /\ out = <<>>

\* where control goes when get_anime_image_path returns
AfterGet == IF op = "display" THEN "disp" ELSE "done"

\* a call of get_anime_image_path (o = "get") or display_image (o = "display")
Call(o, u, t) ==
    /\ pc \in {"idle", "done"}
    /\ prev' = IF pc = "done" /\ ret # NoPath
               THEN [op |-> op, url |-> mal_url, title |-> anime_title,
                     ret |-> ret]
               ELSE NoPrev
    /\ op' = o
    /\ mal_url' = u
    /\ anime_title' = t
    /\ mal_id' = NoId
    /\ filename' = NoPath
    /\ jikanResp' = NoResp
    /\ image_url' = NoUrl
    /\ attempt' = 0
    /\ dlOk' = FALSE
    /\ ret' = NoPath
    /\ dispRet' = "none"
    /\ raised' = FALSE
    /\ shown' = {}
    /\ failStep' = ""
    /\ obs' = ZeroObs
    /\ pc' = "gp_extract"
    /\ UNCHANGED <<fs, pureVars>>

CallGet == \E u \in EngineUrls, t \in EngineTitles : Call("get", u, t)

CallDisplay == \E u \in EngineUrls, t \in EngineTitles : Call("display", u, t)

\* get_anime_image_path, lines 107-110
GpExtract ==
    /\ pc = "gp_extract"
    /\ mal_id' = ExtractMalId(mal_url)
    /\ IF FalsyId(mal_id')
       THEN /\ ret' = NoPath
            /\ failStep' = "noid"
            /\ pc' = AfterGet
       ELSE /\ pc' = "gp_cache"
            /\ UNCHANGED <<ret, failStep>>
    /\ UNCHANGED <<fs, op, mal_url, anime_title, filename, jikanResp, image_url,
                   attempt, dlOk, dispRet, raised, shown, obs, prev, pureVars>>

\* get_anime_image_path, lines 112-116
GpCacheCheck ==
    /\ pc = "gp_cache"
    /\ filename' = SanitizeFilename(anime_title, mal_id)
    /\ IF CacheValid(fs[filename'])
       THEN /\ ret' = filename'
            /\ pc' = AfterGet
       ELSE /\ pc' = "gp_heal"
            /\ UNCHANGED ret
    /\ UNCHANGED <<fs, op, mal_url, anime_title, mal_id, jikanResp, image_url,
                   attempt, dlOk, dispRet, raised, shown, failStep, obs, prev,
                   pureVars>>

\* get_anime_image_path, lines 119-120; os.remove may raise, and nothing
\* between it and the caller catches that
GpHeal ==
    /\ pc = "gp_heal"
    /\ IF Exists(fs[filename])
       THEN \E rmOk \in BOOLEAN :
              IF rmOk
              THEN /\ fs' = [fs EXCEPT ![filename] = "none"]
                   /\ obs' = [obs EXCEPT !.deleted = TRUE]
                   /\ pc' = "jikan"
                   /\ UNCHANGED raised
              ELSE /\ raised' = TRUE
                   /\ pc' = "done"
                   /\ UNCHANGED <<fs, obs>>
       ELSE /\ pc' = "jikan"
            /\ UNCHANGED <<fs, obs, raised>>
    /\ UNCHANGED <<op, mal_url, anime_title, mal_id, filename, jikanResp,
                   image_url, attempt, dlOk, ret, dispRet, shown, failStep,
                   prev, pureVars>>

\* _get_image_from_jikan, lines 72-102: the delay, one GET and what follows
\* it; on 429 the function calls itself and returns what that call returns
GetImageFromJikan ==
    /\ pc = "jikan"
    /\ \E r \in JikanResponses :
         /\ (~r.exc /\ r.status = 429) => obs.jikanGets + 1 < MaxJikanGets
         /\ jikanResp' = r
         /\ obs' = [obs EXCEPT !.jikanGets = @ + 1,
                               !.timeline = @ \o InvocationEvents(r)]
         /\ IF ~r.exc /\ r.status = 429
            THEN /\ pc' = "jikan"
                 /\ UNCHANGED image_url
            ELSE /\ pc' = "gp_resolved"
                 /\ image_url' = ResolveResponse(r)
    /\ UNCHANGED <<fs, op, mal_url, anime_title, mal_id, filename, attempt,
                   dlOk, ret, dispRet, raised, shown, failStep, prev, pureVars>>

\* get_anime_image_path, line 124
GpResolved ==
    /\ pc = "gp_resolved"
    /\ IF TruthyUrl(image_url)
       THEN /\ pc' = "dl"
            /\ UNCHANGED <<ret, failStep>>
       ELSE /\ ret' = NoPath
            /\ failStep' = "nourl"
            /\ pc' = AfterGet
    /\ jikanResp' = NoResp
    /\ UNCHANGED <<fs, op, mal_url, anime_title, mal_id, filename, image_url,
                   attempt, dlOk, dispRet, raised, shown, obs, prev, pureVars>>

\* _download_image, lines 40-68: one iteration of the loop
DownloadAttempt ==
    /\ pc = "dl"
    /\ \E o \in DownloadOutcomes, rm60 \in BOOLEAN, rm65 \in BOOLEAN :
         LET res == AttemptResult(fs[filename], o, rm60, rm65) IN
         /\ RemoveChoiceMatters(fs[filename], o, rm60, rm65)
         /\ fs' = [fs EXCEPT ![filename] = res.file]
         /\ obs' = [obs EXCEPT !.dlHttpFails = @ + (IF HttpFailure(o) THEN 1 ELSE 0),
                               !.wrote = @ \/ res.wrote,
                               !.deleted = @ \/ res.deleted]
         /\ attempt' = attempt + 1
         /\ IF res.exc
            THEN /\ raised' = TRUE
                 /\ pc' = "done"
                 /\ UNCHANGED dlOk
            ELSE IF res.success
            THEN /\ dlOk' = TRUE
                 /\ pc' = "gp_downloaded"
                 /\ UNCHANGED raised
            ELSE /\ dlOk' = FALSE
                 /\ pc' = IF MoreAttempts(attempt') THEN "dl" ELSE "gp_downloaded"
                 /\ UNCHANGED raised
    /\ UNCHANGED <<op, mal_url, anime_title, mal_id, filename, jikanResp,
                   image_url, ret, dispRet, shown, failStep, prev, pureVars>>

\* get_anime_image_path, lines 126-129; the locals of the finished download
\* are gone once it returns
GpDownloaded ==
    /\ pc = "gp_downloaded"
    /\ IF dlOk
       THEN /\ ret' = filename
            /\ UNCHANGED failStep
       ELSE /\ ret' = NoPath
            /\ failStep' = "dlfail"
    /\ image_url' = NoUrl
    /\ attempt' = 0
    /\ dlOk' = FALSE
    /\ pc' = AfterGet
    /\ UNCHANGED <<fs, op, mal_url, anime_title, mal_id, filename, jikanResp,
                   dispRet, raised, shown, obs, prev, pureVars>>

\* display_image, lines 135-148; st.image may raise, and so may the
\* os.remove of the except clause
DisplayImage ==
    /\ pc = "disp"
    /\ IF ret # NoPath /\ Exists(fs[ret])
       THEN \E imgOk \in BOOLEAN, rmOk \in BOOLEAN :
              IF imgOk
              THEN /\ shown' = {"image"}
                   /\ dispRet' = "true"
                   /\ UNCHANGED <<fs, obs, raised>>
              ELSE IF rmOk
              THEN /\ fs' = [fs EXCEPT ![ret] = "none"]
                   /\ obs' = [obs EXCEPT !.deleted = TRUE]
                   /\ shown' = {"placeholder"}
                   /\ dispRet' = "false"
                   /\ UNCHANGED raised
              ELSE /\ raised' = TRUE
                   /\ UNCHANGED <<fs, obs, shown, dispRet>>
       ELSE /\ shown' = {"placeholder"}
            /\ dispRet' = "false"
            /\ UNCHANGED <<fs, obs, raised>>
    /\ pc' = "done"
    /\ UNCHANGED <<op, mal_url, anime_title, mal_id, filename, jikanResp,
                   image_url, attempt, dlOk, ret, failStep, prev, pureVars>>

Next ==
    \/ CallGet
    \/ CallDisplay
    \/ GpExtract
    \/ GpCacheCheck
    \/ GpHeal
    \/ GetImageFromJikan
    \/ GpResolved
    \/ DownloadAttempt
    \/ GpDownloaded
    \/ DisplayImage

Spec == Init /\ [][Next]_vars

----------------------------------------------------------------------------
(* _extract_mal_id on its own: URLs built from parts *)

\* text before the first occurrence of the pattern
ExtractPres ==
    {<<>>, <<"m">>, <<"7">>, <<"/", "a">>, AnimePrefix, AnimePrefix \o <<"x">>,
     <<"h", ":", "/", "/", "m">>}

\* digit runs, each with the integer it denotes
DigitRuns ==
    {[chars |-> <<"0">>, value |-> 0],
     [chars |-> <<"7">>, value |-> 7],
     [chars |-> <<"1", "2">>, value |-> 12],
     [chars |-> <<"0", "0", "7">>, value |-> 7],
     [chars |-> <<"1", "6", "4", "9", "8">>, value |-> 16498]}

\* text after the digit run: empty, or starting with a character that is
\* no digit; it may hold the pattern again
ExtractRests ==
    {<<>>, <<"/", "x">>, <<"x", "9">>, <<"?">>, AnimePrefix \o <<"9">>,
     <<"/">> \o AnimePrefix \o <<"3", "4">>}

\* URLs without the pattern
NoMatchUrls ==
    {<<>>, AnimePrefix, AnimePrefix \o <<"x", "1">>,
     <<"a", "n", "i", "m", "e", "/", "1">>,
     <<"/", "A", "n", "i", "m", "e", "/", "1">>,
     <<"/", "a", "n", "i", "m", "e", "1">>,
     <<"/", "m", "a", "n", "g", "a", "/", "1", "2">>,
     <<"/", "a", "n", "i", "m", "e", "/", "/", "1">>,
     <<"1", "2">>}

ExtractInputs ==
    {[kind |-> "match", pre |-> p, digits |-> d.chars, value |-> d.value,
      rest |-> r] : p \in ExtractPres, d \in DigitRuns, r \in ExtractRests}
    \cup {[kind |-> "nomatch", pre |-> u, digits |-> <<>>, value |-> NoId,
           rest |-> <<>>] : u \in NoMatchUrls}
    \cup {[kind |-> "nonstr", pre |-> <<>>, digits |-> <<>>, value |-> NoId,
           rest |-> <<>>]}

\* the argument built from g
ExtractArg(g) ==
    CASE g.kind = "match" ->
            [isStr |-> TRUE, chars |-> g.pre \o AnimePrefix \o g.digits \o g.rest]
      [] g.kind = "nomatch" -> [isStr |-> TRUE, chars |-> g.pre]
      [] g.kind = "nonstr" -> UrlNonStr

\* the engine at rest, for the specifications of the pure functions
InitAtRest ==
    /\ InitEngine
    /\ fs = [p \in Paths |-> "none"]

InitExtract ==
    /\ InitAtRest
    /\ gen \in ExtractInputs
    /\ out = <<>>

\* one call of _extract_mal_id
ApplyExtract ==
    /\ pc = "idle"
    /\ gen.kind \in {"match", "nomatch", "nonstr"}
    /\ out = <<>>
    /\ out' = <<ExtractMalId(ExtractArg(gen))>>
    /\ UNCHANGED <<engineVars, gen>>

SpecExtract == InitExtract /\ [][ApplyExtract]_vars

----------------------------------------------------------------------------
(* _sanitize_filename on its own: a title and a variant of it *)

TitleAlphabet == {"a", "1", " ", "-", "_", "!", "\t"}

\* characters outside {alphanumeric, space, hyphen, underscore}
DroppedChars == {"!", "\t", "\n", "/"}

WhitespaceChars == {" ", "\t", "\n"}

\* longest tail enumerated over TitleAlphabet
MaxTailLen == 2

\* length of the run of letters put before the tail to reach the 40 limit
LongPrefixLen == 39

Tails == UNION {[1..n -> TitleAlphabet] : n \in 0..MaxTailLen}

GenTitles == {[i \in 1..k |-> "a"] \o t : k \in {0, LongPrefixLen}, t \in Tails}

SanitizeIds == {5, 16498}

\* t with c put after its first p characters (at the end when t is shorter)
InsertAt(t, p, c) ==
    IF p >= Len(t) THEN t \o <<c>>
    ELSE SubSeq(t, 1, p) \o <<c>> \o SubSeq(t, p + 1, Len(t))

\* title t with one character put into it: a dropped character anywhere
\* ("insert"), whitespace at the end ("trail") or at the start ("lead")
SanitizeInputs(t, i) ==
    {[kind |-> "insert", title |-> t, id |-> i, char |-> c,
      variant |-> InsertAt(t, p, c)] :
        c \in DroppedChars,
        p \in {0, 1, 2, LongPrefixLen, LongPrefixLen + 1, LongPrefixLen + 2}}
    \cup {[kind |-> "trail", title |-> t, id |-> i, char |-> c,
           variant |-> t \o <<c>>] : c \in WhitespaceChars}
    \cup {[kind |-> "lead", title |-> t, id |-> i, char |-> c,
           variant |-> <<c>> \o t] : c \in WhitespaceChars}

\* the title and the identifier of the Shingeki no Kyojin page
ExampleTitle ==
    <<"A", "t", "t", "a", "c", "k", " ", "o", "n", " ", "T", "i", "t", "a", "n", "!">>

ExampleInput == [kind |-> "example", title |-> ExampleTitle, id |-> 16498,
                 char |-> "", variant |-> ExampleTitle]

InitSanitize ==
    /\ InitAtRest
    /\ \E t \in GenTitles, i \in SanitizeIds :
         gen \in SanitizeInputs(t, i) \cup {ExampleInput}
    /\ out = <<>>

\* _sanitize_filename called on the title and on its variant
ApplySanitize ==
    /\ pc = "idle"
    /\ gen.kind \in {"insert", "trail", "lead", "example"}
    /\ out = <<>>
    /\ out' = <<SanitizeFilename(gen.title, gen.id),
                SanitizeFilename(gen.variant, gen.id)>>
    /\ UNCHANGED <<engineVars, gen>>

SpecSanitize == InitSanitize /\ [][ApplySanitize]_vars

----------------------------------------------------------------------------
(* Claims *)

\* C1: one resolver call issues at most 2 GETs to the metadata API: after a
\* second 429 it returns absent instead of asking a third time.
C1_AtMostTwoJikanGets == obs.jikanGets <= 2

\* get_anime_image_path has returned to its caller in the call in progress
GetReturned ==
    \/ pc = "disp"
    \/ pc = "done" /\ op = "get" /\ ~raised

\* the call in progress repeats the arguments of the get_anime_image_path
\* call completed just before it, which returned a path
RepeatsSuccessfulGet ==
    /\ pc \notin {"idle"}
    /\ prev.op = "get"
    /\ prev.ret # NoPath
    /\ prev.url = mal_url
    /\ prev.title = anime_title

\* C2: a call of get_anime_image_path that immediately follows a call with
\* the same (mal_url, anime_title) that returned a path returns the same path,
\* sends no GET to the metadata API, sends no download GET, and neither
\* writes nor deletes a file.
C2_Idempotent ==
    RepeatsSuccessfulGet =>
        /\ pc \in {"gp_extract", "gp_cache", "disp", "done"}
        /\ obs.jikanGets = 0
        /\ attempt = 0
        /\ ~obs.wrote
        /\ GetReturned => (ret = prev.ret /\ ~obs.deleted)
        /\ (pc = "done" /\ op = "get") => ~raised

C2_Witness ==
    /\ RepeatsSuccessfulGet
    /\ pc = "done"
    /\ op = "get"
    /\ ret = prev.ret
    /\ fs[ret] = "full"

\* C3: when a zero-byte file is at the derived path, get_anime_image_path
\* deletes it and goes on to the resolver; and it never returns a path whose
\* file is empty.
C3_SelfHealing ==
    /\ [][(pc = "gp_heal" /\ fs[filename] = "empty")
            => (fs'[filename] = "none" /\ pc' = "jikan")]_vars
    /\ [](GetReturned /\ ret # NoPath => fs[ret] # "empty")

\* C4: when every attempt of _download_image fails at the HTTP level, it
\* has made exactly 3 GET attempts when it returns, it returns False, and no
\* file is at the destination path.
C4_RetryBound ==
    (pc = "gp_downloaded" /\ obs.dlHttpFails = attempt) =>
        /\ attempt = 3
        /\ dlOk = FALSE
        /\ fs[filename] = "none"
        /\ ~obs.wrote

C4_Witness ==
    /\ pc = "gp_downloaded"
    /\ obs.dlHttpFails = 3
    /\ attempt = 3
    /\ ~dlOk

\* C5: neither get_anime_image_path nor display_image ever raises to the
\* caller, whatever the network and the file system do.
C5_NeverRaises == ~raised

\* C6: _extract_mal_id returns the integer value of the first digit run
\* that follows /anime/ when the URL holds one, and None for a URL without
\* the pattern and for an argument that is no string.
C6_ExtractId ==
    out # <<>> =>
        IF gen.kind = "match" THEN out[1] = gen.value ELSE out[1] = NoId

C6_Witness ==
    /\ out = <<16498>>
    /\ gen.kind = "match"
    /\ gen.pre = AnimePrefix \o <<"x">>
    /\ gen.rest = <<"/">> \o AnimePrefix \o <<"3", "4">>

\* C7 as stated: the output of _sanitize_filename does not change when a
\* character outside {alphanumeric, space, hyphen, underscore} is put
\* anywhere into the title, nor when whitespace is added at its start or at
\* its end.
C7_InvariantLeadingAndTrailing == out # <<>> => out[1] = out[2]

\* C7 as amended: the output does not change when a character outside
\* {alphanumeric, space, hyphen, underscore} is put anywhere into the title
\* (a leading tab or newline is such a character), nor when whitespace is
\* added at its end; a space added at its start is kept.
C7_InvariantDroppedAndTrailing ==
    (out # <<>> /\ ~(gen.kind = "lead" /\ gen.char = " ")) => out[1] = out[2]

C7_Witness ==
    /\ out # <<>>
    /\ gen.kind = "trail"
    /\ gen.char = " "
    /\ Len(gen.title) = LongPrefixLen + 2
    /\ gen.title[Len(gen.title)] = "!"
    /\ gen.title[Len(gen.title) - 1] = " "
    /\ out[1] = out[2]

\* the three fields of data.images in the order of preference
PreferenceOrder(b) == <<b.webp_large, b.jpg_large, b.jpg>>

\* C8: on HTTP 200 the resolver returns the first present field among webp
\* large_image_url, jpg large_image_url, jpg image_url, in that order, and
\* None when none of them is present.
C8_PreferenceOrder ==
    (/\ pc = "gp_resolved"
     /\ ~jikanResp.exc
     /\ jikanResp.status = 200
     /\ jikanResp.body.kind = "images") =>
        LET order == PreferenceOrder(jikanResp.body) IN
        /\ (\A i \in 1..3 : order[i] = Absent) => image_url = NoUrl
        /\ \A i \in 1..3 :
             (order[i] # Absent /\ \A j \in 1..(i - 1) : order[j] = Absent)
                => image_url = (IF order[i] = Null THEN NoUrl ELSE order[i])
        /\ (order = <<Absent, Absent, UrlJpg>>) => image_url = UrlJpg

C8_Witness ==
    /\ pc = "gp_resolved"
    /\ jikanResp.status = 200
    /\ jikanResp.body.kind = "images"
    /\ PreferenceOrder(jikanResp.body) = <<Absent, UrlJpgLarge, UrlJpg>>
    /\ image_url = UrlJpgLarge

\* C9: every call of display_image shows exactly one of the image and the
\* placeholder, returns True exactly when it showed the image, and returns
\* False with the placeholder shown otherwise.
C9_ImageOrPlaceholder ==
    (pc = "done" /\ op = "display") =>
        /\ shown \in {{"image"}, {"placeholder"}}
        /\ dispRet = (IF shown = {"image"} THEN "true" ELSE "false")

\* C10: get_anime_image_path returns None at the identifier step only when
\* _extract_mal_id returned None; with an identifier, 0 included, it goes on
\* to the filename and the cache check.
C10_FailsOnlyWithoutId == failStep = "noid" => ExtractMalId(mal_url) = NoId

\* C11 as stated: once a file of non-zero size is at a derived path, no step
\* of any later call deletes, truncates or rewrites it.
C11_NonEmptyNeverTouched ==
    [][\A p \in Paths : fs[p] \in {"partial", "full"} => fs'[p] = fs[p]]_vars

\* C11 as amended: a file of non-zero size at a derived path is never
\* deleted, truncated or rewritten by get_anime_image_path; display_image
\* deletes it in one case only, when showing it raised, and then shows the
\* placeholder and returns False.
C11_NonEmptyTouchedOnlyByDisplayError ==
    [][\A p \in Paths :
         (fs[p] \in {"partial", "full"} /\ fs'[p] # fs[p]) =>
            /\ pc = "disp"
            /\ p = ret
            /\ fs'[p] = "none"
            /\ dispRet' = "false"
            /\ shown' = {"placeholder"}]_vars

C11_Witness ==
    /\ pc = "done"
    /\ op = "display"
    /\ ret # NoPath
    /\ fs[ret] = "none"
    /\ failStep = ""
    /\ ~obs.wrote
    /\ obs.deleted
    /\ dispRet = "false"

\* titles t1 and t2 sanitize to the same prefix: with the characters outside
\* {alphanumeric, space, hyphen, underscore} dropped and the trailing spaces
\* cut, both have the same number of characters left (counted up to 40) and
\* agree on each of them, a space and an underscore counting as the same
SameSanitizedPrefix(t1, t2) ==
    LET K1 == SelectSeq(t1, LAMBDA c : c \notin DroppedChars)
        K2 == SelectSeq(t2, LAMBDA c : c \notin DroppedChars)
        LastNonSpace(K) ==
            LET nonSpace == {j \in 1..Len(K) : K[j] # " "}
            IN  IF nonSpace = {} THEN 0
                ELSE CHOOSE j \in nonSpace : \A k \in nonSpace : k <= j
        n1 == IF LastNonSpace(K1) < 40 THEN LastNonSpace(K1) ELSE 40
        n2 == IF LastNonSpace(K2) < 40 THEN LastNonSpace(K2) ELSE 40
        Same(c, d) == c = d \/ ({c, d} = {" ", "_"})
    IN  /\ n1 = n2
        /\ \A j \in 1..n1 : Same(K1[j], K2[j])

\* get_anime_image_path has returned a path in the call in progress, and the
\* call completed just before it was a get_anime_image_path call that
\* returned a path for the same identifier
TwoSuccessesSameId ==
    /\ prev.op = "get"
    /\ prev.ret # NoPath
    /\ GetReturned
    /\ ret # NoPath
    /\ ExtractMalId(prev.url) = ExtractMalId(mal_url)

\* C12 as stated: two successful requests with the same identifier, whatever
\* their titles, never leave two distinct cache files.
C12_OneFilePerIdentifier ==
    TwoSuccessesSameId =>
        ~(ret # prev.ret /\ fs[ret] # "none" /\ fs[prev.ret] # "none")

\* C12 as amended: two successful requests with the same identifier whose
\* titles sanitize to the same prefix never leave two distinct cache files.
\* When get_anime_image_path returns a path, every title with the same
\* sanitized prefix derives that very path for this identifier; and when the
\* request before it was such a request, both return one path, the file the
\* first left is still there with content, and the second neither wrote nor
\* deleted a file.
C12_OneFilePerPrefixAndId ==
    /\ (GetReturned /\ ret # NoPath) =>
          \A t \in EngineTitles :
              SameSanitizedPrefix(t, anime_title) =>
                  SanitizeFilename(t, mal_id) = ret
    /\ (TwoSuccessesSameId /\ SameSanitizedPrefix(prev.title, anime_title)) =>
          /\ ret = prev.ret
          /\ fs[prev.ret] \in {"partial", "full"}
          /\ ~obs.wrote
          /\ ~obs.deleted

\* the second of two requests for one identifier, with another title of the
\* same sanitized prefix, has returned the first one's path from the cache
C12_Witness ==
    /\ TwoSuccessesSameId
    /\ prev.title = TitleAB
    /\ anime_title = TitleABPlain
    /\ SameSanitizedPrefix(prev.title, anime_title)
    /\ ret = prev.ret
    /\ fs[ret] = "full"
    /\ ~obs.wrote

\* C13: whenever get_anime_image_path returns a path, a file of non-zero
\* size is at that path; and when _download_image reports success, the file
\* was written in this call by an attempt whose answer was 200 with an image
\* content-type (so not every attempt made was an HTTP-level failure).
C13_ReturnedPathHasContent ==
    /\ (GetReturned /\ ret # NoPath) => fs[ret] \in {"partial", "full"}
    /\ (GetReturned /\ ret # NoPath /\ obs.wrote) => fs[ret] = "full"
    /\ (pc = "gp_downloaded" /\ dlOk) =>
          /\ fs[filename] = "full"
          /\ obs.wrote
          /\ obs.dlHttpFails < attempt

C13_Witness ==
    /\ pc = "done"
    /\ op = "get"
    /\ ret # NoPath
    /\ obs.wrote
    /\ obs.dlHttpFails = 2
    /\ fs[ret] = "full"

\* C14: whenever get_anime_image_path returns None after an identifier was
\* extracted, no file is at the derived path, whatever mix of failures the
\* request met.
C14_FailureLeavesNoFile ==
    (GetReturned /\ ret = NoPath /\ failStep # "noid") =>
        /\ filename # NoPath
        /\ fs[filename] = "none"

C14_Witness ==
    /\ pc = "done"
    /\ op = "get"
    /\ ~raised
    /\ failStep = "dlfail"
    /\ obs.wrote
    /\ obs.deleted
    /\ obs.dlHttpFails = 1
    /\ fs[filename] = "none"

\* C15: the metadata API is queried only after the cache check found no
\* non-empty file at the derived path; a download attempt is made only after
\* the resolver returned a URL in the same request; and when the resolver
\* returns None the request makes no download attempt, creates no file and
\* returns None.
C15_StepOrder ==
    /\ obs.jikanGets > 0 =>
          /\ filename # NoPath
          /\ pc \in {"jikan", "gp_resolved"} => fs[filename] = "none"
    /\ (pc \in {"dl", "gp_downloaded"} \/ attempt > 0 \/ obs.wrote) =>
          /\ obs.jikanGets >= 1
          /\ pc \in {"dl", "gp_downloaded"} => image_url \notin {NoUrl, ""}
    /\ failStep = "nourl" =>
          /\ attempt = 0
          /\ ~obs.wrote
          /\ ret = NoPath
          /\ ~raised
          /\ fs[filename] = "none"

C15_Witness ==
    /\ pc = "done"
    /\ failStep = "nourl"
    /\ obs.jikanGets = 2
    /\ obs.deleted
    /\ ~obs.wrote

\* the positions of the GETs in the resolver's timeline
GetPositions == {i \in 1..Len(obs.timeline) : obs.timeline[i].ev = "get"}

\* C16: every GET the resolver sends is immediately preceded by the
\* pre-request delay of at least 500 ms, and every GET after the first (a
\* retry after 429) is in addition preceded by the wait of at least 2 s.
C16_DelaysBeforeEveryGet ==
    /\ Cardinality(GetPositions) = obs.jikanGets
    /\ \A i \in GetPositions :
         /\ i >= 2
         /\ obs.timeline[i - 1].ev = "sleep"
         /\ obs.timeline[i - 1].ms >= 500
         /\ (\E j \in GetPositions : j < i) =>
               /\ i >= 3
               /\ obs.timeline[i - 2].ev = "sleep"
               /\ obs.timeline[i - 2].ms >= 2000

C16_Witness ==
    /\ pc = "gp_resolved"
    /\ obs.jikanGets = 2
    /\ Len(obs.timeline) = 5
    /\ jikanResp.status = 200

\* the answer is one the resolver has no URL for: a transport failure, a
\* status other than 200 and 429, or a 200 body that does not parse or has
\* not the expected nesting
UnusableAnswer(r) ==
    \/ r.exc
    \/ r.status \notin {200, 429}
    \/ r.status = 200 /\ r.body.kind \in {"badjson", "nodata", "badshape"}

\* C17: for every status other than 200 and 429, every transport failure
\* and every body that does not parse or has an unexpected shape, the
\* resolver returns None, and no exception leaves it.
C17_ResolverCollapsesFailures ==
    /\ (pc = "gp_resolved" /\ UnusableAnswer(jikanResp)) => image_url = NoUrl
    /\ pc \in {"jikan", "gp_resolved"} => ~raised

C17_Witness ==
    /\ pc = "gp_resolved"
    /\ jikanResp.status = 500
    /\ jikanResp.body.kind = "images"
    /\ image_url = NoUrl
    /\ obs.jikanGets = 2

\* the decimal text of the identifiers of SanitizeIds
IdText(i) ==
    CASE i = 5 -> <<"5">>
      [] i = 16498 -> <<"1", "6", "4", "9", "8">>

ExamplePath ==
    <<"a", "n", "i", "m", "e", "_", "i", "m", "a", "g", "e", "s", "/", "A", "t", "t", "a", "c", "k", "_", "o", "n", "_", "T", "i", "t", "a", "n", "_", "1", "6", "4", "9", "8", ".", "j", "p", "g">>

\* path is <cacheDir>/<T>_<id>.jpg, T being what is left of title t when the
\* characters outside {alphanumeric, space, hyphen, underscore} are dropped
\* (K), the trailing spaces of K are cut (K has n characters up to its last
\* one that is no space), each space is written as an underscore, and only
\* the first 40 characters are kept
IsDerivedPath(path, t, i) ==
    LET K == SelectSeq(t, LAMBDA c : c \notin DroppedChars)
        nonSpace == {j \in 1..Len(K) : K[j] # " "}
        n == IF nonSpace = {} THEN 0
             ELSE CHOOSE j \in nonSpace : \A k \in nonSpace : k <= j
        lenT == IF n < 40 THEN n ELSE 40
        head == images_dir \o <<"/">>
        tail == <<"_">> \o IdText(i) \o <<".", "j", "p", "g">>
    IN  /\ Len(path) = Len(head) + lenT + Len(tail)
        /\ SubSeq(path, 1, Len(head)) = head
        /\ SubSeq(path, Len(head) + lenT + 1, Len(path)) = tail
        /\ \A j \in 1..lenT :
             path[Len(head) + j] = (IF K[j] = " " THEN "_" ELSE K[j])

\* C18: _sanitize_filename(title, id) is <cacheDir>/<T>_<id>.jpg with T the
\* title filtered to alphanumerics, space, hyphen and underscore, stripped of
\* trailing whitespace, spaces replaced by underscores and then cut to 40
\* characters; ("Attack on Titan!", 16498) gives
\* anime_images/Attack_on_Titan_16498.jpg.
C18_DerivedPath ==
    out # <<>> =>
        /\ IsDerivedPath(out[1], gen.title, gen.id)
        /\ IsDerivedPath(out[2], gen.variant, gen.id)
        /\ gen.kind = "example" => out[1] = ExamplePath

C18_Witness ==
    /\ gen.kind = "example"
    /\ out # <<>>
    /\ out[1] = ExamplePath

----------------------------------------------------------------------------
(* _sanitize_filename on two (title, identifier) pairs *)

\* titles made of a letter, a digit and the separator character
PairAlphabet == {"a", "1", "_"}

\* longest title of a pair
MaxPairTitleLen == 2

PairTitles == UNION {[1..n -> PairAlphabet] : n \in 0..MaxPairTitleLen}

PairIds == {1, 2, 5, 11, 12, 21}

PairInput(t1, i1, t2, i2) ==
    [kind |-> "pair", title |-> t1, id |-> i1, title2 |-> t2, id2 |-> i2]

InitPair ==
    /\ InitAtRest
    /\ \E t1 \in PairTitles, i1 \in PairIds, t2 \in PairTitles, i2 \in PairIds :
         gen = PairInput(t1, i1, t2, i2)
    /\ out = <<>>

\* _sanitize_filename called on each pair
ApplySanitizePair ==
    /\ pc = "idle"
    /\ gen.kind = "pair"
    /\ out = <<>>
    /\ out' = <<SanitizeFilename(gen.title, gen.id),
                SanitizeFilename(gen.title2, gen.id2)>>
    /\ UNCHANGED <<engineVars, gen>>

SpecPair == InitPair /\ [][ApplySanitizePair]_vars

\* C19: the derived path determines the identifier: for all titles and all
\* identifiers i1 # i2, _sanitize_filename(t1, i1) # _sanitize_filename(t2, i2),
\* also when the titles hold underscores and digits.
C19_PathDeterminesId ==
    (out # <<>> /\ gen.id # gen.id2) => out[1] # out[2]

C19_Witness ==
    /\ out # <<>>
    /\ gen.title = <<"a", "_">>
    /\ gen.id = 2
    /\ gen.title2 = <<"a">>
    /\ gen.id2 = 12
    /\ out[1] # out[2]

====
